---- MODULE Spec2Model ----
(***************************************************************************)
(* Model of the video-analysis job pipeline of youtube-content-classifier. *)
(*                                                                         *)
(*   server/app/api/endpoints.py   submit_analysis creates a pending job   *)
(*                                 record and dispatches its id            *)
(*   server/app/worker/tasks.py    analyze_video_task drives one job       *)
(*                                 through the stages and writes the       *)
(*                                 job record; DatabaseTask owns the       *)
(*                                 session                                 *)
(*   server/app/services/*.py      downloader, media processor and         *)
(*                                 transcriber (the stages)                *)
(*   server/app/celery_app.py      soft and hard time limits               *)
(*                                                                         *)
(* The store holds the committed rows; every execution has a session that  *)
(* holds the attribute assignments not yet committed.  A commit either     *)
(* writes the pending assignments to the row or raises and rolls them      *)
(* back.  Every stage call either returns or raises.  The soft time limit  *)
(* raises SoftTimeLimitExceeded (a subclass of Exception) once, at any     *)
(* point of the task body; the hard time limit kills the worker process.   *)
(***************************************************************************)
EXTENDS Integers, Sequences, FiniteSets, TLC

(***************************************************************************)
(* Bounds of the model.                                                    *)
(***************************************************************************)
MaxJobs == 2

\* The number of calls made on the directly called transcriber.
MaxCalls == 4

\* The largest limit asked of list_jobs.
MaxLimit == 2

(***************************************************************************)
(* Values.                                                                 *)
(***************************************************************************)
NULL == "NULL"
UNSET == "UNSET"

Workers == {"w1", "w2"}
SoloWorkers == {"w1"}

Urls == {"u1", "u2"}

\* A job id that submit_analysis never assigns (primary keys start at 1).
StrayId == 0

JobIds == 1..MaxJobs

Fields == {"video_title", "status", "result", "error_message", "completed_at"}

\* AnalysisJob as created by submit_analysis: every nullable column is NULL.
AnalysisJob(url) ==
    [youtube_url   |-> url,
     video_title   |-> NULL,
     status        |-> "pending",
     result        |-> NULL,
     error_message |-> NULL,
     completed_at  |-> NULL]

\* A session with no pending attribute assignment.
CleanSession == [f \in Fields |-> UNSET]

\* The stages of the pipeline in the order of the task body.
StageOrder ==
    <<"metadata", "audio", "wav", "transcribe", "unload", "analyze", "assemble">>

\* str(e) of the exceptions the task body can see.
StageError == "StageError"
SoftTimeLimitExceeded == "SoftTimeLimitExceeded()"
StoreError == "StoreError"
NotFound == "Job not found"

\* yt-dlp's view of a url: the video id and the title (a video may have none).
VideoId(url) == IF url = "u1" THEN "vA" ELSE "vB"
TitleOf(url) == IF url = "u1" THEN "Title A" ELSE NULL

\* download_audio_only returns <temp_dir>/<video id>.mp3
AudioPath(url) == <<VideoId(url), "mp3">>
\* convert_to_wav replaces the extension of its input by .wav
WavPath(audio) == <<audio[1], "wav">>

VARIABLES
    store,      \* committed rows of analysis_jobs: job id -> AnalysisJob
    nextId,     \* next primary key
    undispatched, \* ids committed by submit_analysis, delay() not yet called
    queue,      \* job ids handed to the broker and not yet picked up
    files,      \* paths that exist under TEMP_DIR
    pc,         \* per worker: position in analyze_video_task
    job_id,     \* per worker: the task's argument
    db,         \* per worker: DatabaseTask._db, named by the execution that
                \* created the session, NoSession for None
    session,    \* per worker: attribute assignments not yet committed
    exc,        \* per worker: the exception being handled or propagated
    video_info, \* per worker: title returned by get_video_info
    audio_path, \* per worker: path returned by download_audio_only
    wav_path,   \* per worker: path returned by convert_to_wav
    model,      \* per worker: WhisperTranscriber.model
    stages,     \* per worker: the stages invoked so far, in order
    failed_stage, \* per worker: the stage whose call raised, if any
    soft_at,    \* per worker: where the soft time limit was raised, if it was
    created_at, \* job id -> the created_at column (server_default now())
    response,   \* the response of the API read just served, if any
    transcriber \* a WhisperTranscriber called directly: model, calls, raised

vars == <<store, nextId, undispatched, queue, files, pc, job_id, db, session,
          exc, video_info, audio_path, wav_path, model, stages, failed_stage,
          soft_at, created_at, response, transcriber>>

localVars == <<job_id, db, session, exc, video_info, audio_path, wav_path,
               model, stages, failed_stage, soft_at>>

\* DatabaseTask._db is None.
NoSession == -1

\* Lines 23-27: the db property creates the session on first use; the session
\* created while the id is executed is named by the id.
db_property(d, id) == IF d = NoSession THEN id ELSE d

\* Lines 29-32: after_return closes the session and resets _db, if one is held.
after_return(d) == IF d # NoSession THEN NoSession ELSE d

\* No API read has just been served.
NoResponse == [code |-> 0]

\* WhisperTranscriber.__init__: no model is held.
NewTranscriber ==
    [model |-> NULL, calls |-> <<>>, raised |-> FALSE, loads |-> 0,
     used |-> UNSET]

\* A step that serves no API read, inserts no row and calls no method of the
\* directly called transcriber.
NoRequest ==
    /\ response' = NoResponse
    /\ UNCHANGED <<created_at, transcriber>>

Init ==
    /\ store = <<>>
    /\ nextId = 1
    /\ undispatched = {}
    /\ queue = {}
    /\ files = {}
    /\ pc = [w \in Workers |-> "idle"]
    /\ job_id = [w \in Workers |-> StrayId]
    /\ db = [w \in Workers |-> NoSession]
    /\ session = [w \in Workers |-> CleanSession]
    /\ exc = [w \in Workers |-> NULL]
    /\ video_info = [w \in Workers |-> UNSET]
    /\ audio_path = [w \in Workers |-> <<>>]
    /\ wav_path = [w \in Workers |-> <<>>]
    /\ model = [w \in Workers |-> NULL]
    /\ stages = [w \in Workers |-> <<>>]
    /\ failed_stage = [w \in Workers |-> NULL]
    /\ soft_at = [w \in Workers |-> NULL]
    /\ created_at = <<>>
    /\ response = NoResponse
    /\ transcriber = NewTranscriber

(***************************************************************************)
(* endpoints.py: submit_analysis                                           *)
(***************************************************************************)
\* The latest creation time of a row (0 when there is none).
Latest ==
    IF DOMAIN created_at = {} THEN 0
    ELSE CHOOSE t \in {created_at[i] : i \in DOMAIN created_at} :
            \A i \in DOMAIN created_at : created_at[i] <= t

\* db.add(job); db.commit(): the row gets the next id, the status pending and
\* the creation time t of the database clock.
Insert(url, t) ==
    /\ nextId <= MaxJobs
    /\ store' = [i \in DOMAIN store \cup {nextId} |->
                    IF i = nextId THEN AnalysisJob(url) ELSE store[i]]
    /\ created_at' = [i \in DOMAIN created_at \cup {nextId} |->
                         IF i = nextId THEN t ELSE created_at[i]]
    /\ nextId' = nextId + 1
    /\ undispatched' = undispatched \cup {nextId}
    /\ response' = NoResponse
    /\ UNCHANGED <<queue, files, pc, transcriber>>
    /\ UNCHANGED localVars

\* db.add(job); db.commit(); db.refresh(job)
SubmitCommit(url) ==
    /\ nextId <= MaxJobs
    /\ Insert(url, Latest + 1)

\* The same, within the clock tick of the previous insert.
SubmitCommitSameTick(url) ==
    /\ DOMAIN store # {}
    /\ Insert(url, Latest)

\* The dispatch of line 99 moved before the commit of line 95: the id the
\* row is going to get is sent first.
SubmitDispatch_Early(id) ==
    /\ id = nextId
    /\ id <= MaxJobs
    /\ id \notin queue
    /\ queue' = queue \cup {id}
    /\ UNCHANGED <<store, nextId, undispatched, files, pc>>
    /\ UNCHANGED localVars
    /\ NoRequest

\* analyze_video_task.delay(job.id)
SubmitDispatch(id) ==
    /\ id \in undispatched
    /\ undispatched' = undispatched \ {id}
    /\ queue' = queue \cup {id}
    /\ UNCHANGED <<store, nextId, files, pc>>
    /\ UNCHANGED localVars
    /\ NoRequest

\* The task is invoked with an id that has no row.
DispatchStray ==
    /\ StrayId \notin queue
    /\ queue' = queue \cup {StrayId}
    /\ UNCHANGED <<store, nextId, undispatched, files, pc>>
    /\ UNCHANGED localVars
    /\ NoRequest

(***************************************************************************)
(* Session: assignments and commit                                         *)
(***************************************************************************)
\* The row after the session's pending assignments are flushed.
Flushed(row, pending) ==
    [f \in DOMAIN row |->
        IF f \in Fields /\ pending[f] # UNSET THEN pending[f] ELSE row[f]]

\* self.db.commit() succeeded for worker w's job.
Committed(w, pending) ==
    [store EXCEPT ![job_id[w]] = Flushed(store[job_id[w]], pending)]

\* Move worker w to position p.
Goto(w, p) == pc' = [pc EXCEPT ![w] = p]

\* An exception e raised inside the try block: control reaches the handler.
RaiseInTry(w, e) ==
    /\ Goto(w, "handler")
    /\ exc' = [exc EXCEPT ![w] = e]

Invoke(w, stage) == stages' = [stages EXCEPT ![w] = Append(stages[w], stage)]

\* A stage call raised: the stage was invoked and control reaches the handler.
StageRaises(w, stage) ==
    /\ Invoke(w, stage)
    /\ failed_stage' = [failed_stage EXCEPT ![w] = stage]
    /\ RaiseInTry(w, StageError)

(***************************************************************************)
(* transcriber.py: WhisperTranscriber                                      *)
(***************************************************************************)
\* load_model without the test of line 30: a model that is held is replaced
\* by one loaded again.
load_model_Reloads(m) == IF m = NULL THEN "loaded" ELSE "reloaded"

\* load_model: loads only when no model is held.
load_model(m) == IF m = NULL THEN "loaded" ELSE m

\* unload_model without the assignment of None: the model stays held.
unload_model_Keeps(m) == m

\* unload_model that loads when nothing is held.
unload_model_Toggles(m) == IF m # NULL THEN NULL ELSE "loaded"

\* unload_model: drops the model when one is held.
unload_model(m) == IF m # NULL THEN NULL ELSE m

(***************************************************************************)
(* tasks.py: analyze_video_task                                            *)
(***************************************************************************)
\* Lines 51-52: the worker takes a dispatched id; self.db opens the session
\* and the row is found.
PickupFound(w, id) ==
    /\ pc[w] = "idle"
    /\ id \in queue
    /\ id \in DOMAIN store
    /\ queue' = queue \ {id}
    /\ job_id' = [job_id EXCEPT ![w] = id]
    /\ db' = [db EXCEPT ![w] = db_property(db[w], id)]
    /\ Goto(w, "processing")
    /\ UNCHANGED <<store, nextId, undispatched, files, session, exc,
                   video_info, audio_path, wav_path, model, stages,
                   failed_stage, soft_at>>
    /\ NoRequest

\* A pickup that creates the missing row instead of raising.
PickupNotFound_Creates(w, id) ==
    /\ pc[w] = "idle"
    /\ id \in queue
    /\ id \notin DOMAIN store
    /\ queue' = queue \ {id}
    /\ job_id' = [job_id EXCEPT ![w] = id]
    /\ db' = [db EXCEPT ![w] = db_property(db[w], id)]
    /\ store' = [i \in DOMAIN store \cup {id} |->
                    IF i = id THEN AnalysisJob("u1") ELSE store[i]]
    /\ Goto(w, "processing")
    /\ UNCHANGED <<nextId, undispatched, files, session, exc,
                   video_info, audio_path, wav_path, model, stages,
                   failed_stage, soft_at>>
    /\ NoRequest

\* Lines 51-54: no row has the id; ValueError is raised before the try block.
PickupNotFound(w, id) ==
    /\ pc[w] = "idle"
    /\ id \in queue
    /\ id \notin DOMAIN store
    /\ queue' = queue \ {id}
    /\ job_id' = [job_id EXCEPT ![w] = id]
    /\ db' = [db EXCEPT ![w] = db_property(db[w], id)]
    /\ Goto(w, "raised")
    /\ exc' = [exc EXCEPT ![w] = NotFound]
    /\ UNCHANGED <<store, nextId, undispatched, files, session,
                   video_info, audio_path, wav_path, model, stages,
                   failed_stage, soft_at>>
    /\ NoRequest

\* The assignment of line 58 without the commit of line 59.
CommitProcessing_Late(w) ==
    /\ pc[w] = "processing"
    /\ session' = [session EXCEPT ![w].status = "processing"]
    /\ Goto(w, "get_video_info")
    /\ UNCHANGED <<store, nextId, undispatched, queue, files, job_id, db, exc,
                   video_info, audio_path, wav_path, model, stages,
                   failed_stage, soft_at>>
    /\ NoRequest

\* Lines 58-59: job.status = "processing"; commit.
CommitProcessing(w) ==
    /\ pc[w] = "processing"
    /\ store' = Committed(w, [session[w] EXCEPT !.status = "processing"])
    /\ session' = [session EXCEPT ![w] = CleanSession]
    /\ Goto(w, "get_video_info")
    /\ UNCHANGED <<nextId, undispatched, queue, files, job_id, db, exc,
                   video_info, audio_path, wav_path, model, stages,
                   failed_stage, soft_at>>
    /\ NoRequest

\* Line 59 raises: the transaction is rolled back.
CommitProcessingFails(w) ==
    /\ pc[w] = "processing"
    /\ session' = [session EXCEPT ![w] = CleanSession]
    /\ RaiseInTry(w, StoreError)
    /\ UNCHANGED <<store, nextId, undispatched, queue, files, job_id, db,
                   video_info, audio_path, wav_path, model, stages,
                   failed_stage, soft_at>>
    /\ NoRequest

\* Line 71: downloader.get_video_info returns the metadata.
GetVideoInfo(w) ==
    /\ pc[w] = "get_video_info"
    /\ Invoke(w, "metadata")
    /\ video_info' = [video_info EXCEPT
                         ![w] = TitleOf(store[job_id[w]].youtube_url)]
    /\ Goto(w, "assign_title")
    /\ UNCHANGED <<store, nextId, undispatched, queue, files, job_id, db,
                   session, exc, audio_path, wav_path, model, failed_stage,
                   soft_at>>
    /\ NoRequest

GetVideoInfoFails(w) ==
    /\ pc[w] = "get_video_info"
    /\ StageRaises(w, "metadata")
    /\ UNCHANGED <<store, nextId, undispatched, queue, files, job_id, db,
                   session, video_info, audio_path, wav_path, model, soft_at>>
    /\ NoRequest

\* Line 72: job.video_title = video_info.get('title', 'Unknown'); the key is
\* always present, so a missing title is stored as NULL.
AssignTitle(w) ==
    /\ pc[w] = "assign_title"
    /\ session' = [session EXCEPT ![w].video_title = video_info[w]]
    /\ Goto(w, "commit_title")
    /\ UNCHANGED <<store, nextId, undispatched, queue, files, job_id, db, exc,
                   video_info, audio_path, wav_path, model, stages,
                   failed_stage, soft_at>>
    /\ NoRequest

\* Line 73 without effect: the title assignment is dropped.
CommitTitle_Dropped(w) ==
    /\ pc[w] = "commit_title"
    /\ session' = [session EXCEPT ![w] = CleanSession]
    /\ Goto(w, "download_audio")
    /\ UNCHANGED <<store, nextId, undispatched, queue, files, job_id, db, exc,
                   video_info, audio_path, wav_path, model, stages,
                   failed_stage, soft_at>>
    /\ NoRequest

\* Line 73: commit.
CommitTitle(w) ==
    /\ pc[w] = "commit_title"
    /\ store' = Committed(w, session[w])
    /\ session' = [session EXCEPT ![w] = CleanSession]
    /\ Goto(w, "download_audio")
    /\ UNCHANGED <<nextId, undispatched, queue, files, job_id, db, exc,
                   video_info, audio_path, wav_path, model, stages,
                   failed_stage, soft_at>>
    /\ NoRequest

CommitTitleFails(w) ==
    /\ pc[w] = "commit_title"
    /\ session' = [session EXCEPT ![w] = CleanSession]
    /\ RaiseInTry(w, StoreError)
    /\ UNCHANGED <<store, nextId, undispatched, queue, files, job_id, db,
                   video_info, audio_path, wav_path, model, stages,
                   failed_stage, soft_at>>
    /\ NoRequest

\* Line 79: downloader.download_audio_only writes <video id>.mp3.
DownloadAudio(w) ==
    /\ pc[w] = "download_audio"
    /\ Invoke(w, "audio")
    /\ audio_path' = [audio_path EXCEPT
                         ![w] = AudioPath(store[job_id[w]].youtube_url)]
    /\ files' = files \cup {AudioPath(store[job_id[w]].youtube_url)}
    /\ Goto(w, "convert_to_wav")
    /\ UNCHANGED <<store, nextId, undispatched, queue, job_id, db, session,
                   exc, video_info, wav_path, model, failed_stage, soft_at>>
    /\ NoRequest

DownloadAudioFails(w) ==
    /\ pc[w] = "download_audio"
    /\ StageRaises(w, "audio")
    /\ UNCHANGED <<store, nextId, undispatched, queue, files, job_id, db,
                   session, video_info, audio_path, wav_path, model, soft_at>>
    /\ NoRequest

\* Line 87: processor.convert_to_wav reads the audio file and writes the WAV.
ConvertToWav(w) ==
    /\ pc[w] = "convert_to_wav"
    /\ audio_path[w] \in files
    /\ Invoke(w, "wav")
    /\ wav_path' = [wav_path EXCEPT ![w] = WavPath(audio_path[w])]
    /\ files' = files \cup {WavPath(audio_path[w])}
    /\ Goto(w, "transcribe_load")
    /\ UNCHANGED <<store, nextId, undispatched, queue, job_id, db, session,
                   exc, video_info, audio_path, model, failed_stage, soft_at>>
    /\ NoRequest

ConvertToWavFails(w) ==
    /\ pc[w] = "convert_to_wav"
    /\ StageRaises(w, "wav")
    /\ UNCHANGED <<store, nextId, undispatched, queue, files, job_id, db,
                   session, video_info, audio_path, wav_path, model, soft_at>>
    /\ NoRequest

\* Lines 92-93 and transcriber.py line 51: a new transcriber loads its model.
TranscribeLoad(w) ==
    /\ pc[w] = "transcribe_load"
    /\ Invoke(w, "transcribe")
    /\ model' = [model EXCEPT ![w] = load_model(NULL)]
    /\ Goto(w, "transcribe_run")
    /\ UNCHANGED <<store, nextId, undispatched, queue, files, job_id, db,
                   session, exc, video_info, audio_path, wav_path,
                   failed_stage, soft_at>>
    /\ NoRequest

\* whisper.load_model raises: no model is held.
TranscribeLoadFails(w) ==
    /\ pc[w] = "transcribe_load"
    /\ StageRaises(w, "transcribe")
    /\ UNCHANGED <<store, nextId, undispatched, queue, files, job_id, db,
                   session, video_info, audio_path, wav_path, model, soft_at>>
    /\ NoRequest

\* transcriber.py line 64: self.model.transcribe reads the WAV and returns.
TranscribeRun(w) ==
    /\ pc[w] = "transcribe_run"
    /\ wav_path[w] \in files
    /\ Goto(w, "unload_model")
    /\ UNCHANGED <<store, nextId, undispatched, queue, files, job_id, db,
                   session, exc, video_info, audio_path, wav_path, model,
                   stages, failed_stage, soft_at>>
    /\ NoRequest

\* self.model.transcribe raises: the model stays loaded.
TranscribeRunFails(w) ==
    /\ pc[w] = "transcribe_run"
    /\ failed_stage' = [failed_stage EXCEPT ![w] = "transcribe"]
    /\ RaiseInTry(w, StageError)
    /\ UNCHANGED <<store, nextId, undispatched, queue, files, job_id, db,
                   session, video_info, audio_path, wav_path, model, stages,
                   soft_at>>
    /\ NoRequest

\* Line 104: transcriber.unload_model().
UnloadModel(w) ==
    /\ pc[w] = "unload_model"
    /\ Invoke(w, "unload")
    /\ model' = [model EXCEPT ![w] = unload_model(model[w])]
    /\ Goto(w, "analyze_content")
    /\ UNCHANGED <<store, nextId, undispatched, queue, files, job_id, db,
                   session, exc, video_info, audio_path, wav_path,
                   failed_stage, soft_at>>
    /\ NoRequest

\* torch.cuda.empty_cache() raises after the model was dropped.
UnloadModelFails(w) ==
    /\ pc[w] = "unload_model"
    /\ model' = [model EXCEPT ![w] = unload_model(model[w])]
    /\ StageRaises(w, "unload")
    /\ UNCHANGED <<store, nextId, undispatched, queue, files, job_id, db,
                   session, video_info, audio_path, wav_path, soft_at>>
    /\ NoRequest

\* Lines 108-112: analyzer.analyze_content returns the verdict.
AnalyzeContent(w) ==
    /\ pc[w] = "analyze_content"
    /\ Invoke(w, "analyze")
    /\ Goto(w, "assemble")
    /\ UNCHANGED <<store, nextId, undispatched, queue, files, job_id, db,
                   session, exc, video_info, audio_path, wav_path, model,
                   failed_stage, soft_at>>
    /\ NoRequest

AnalyzeContentFails(w) ==
    /\ pc[w] = "analyze_content"
    /\ StageRaises(w, "analyze")
    /\ UNCHANGED <<store, nextId, undispatched, queue, files, job_id, db,
                   session, video_info, audio_path, wav_path, model, soft_at>>
    /\ NoRequest

\* The assignments of lines 136-138 without line 138.
CompletedAssign_NoTimestamp(pending) ==
    [pending EXCEPT !.result = "final_result",
                    !.status = "completed"]

\* The assignments of lines 136-138.
CompletedAssign(pending) ==
    [pending EXCEPT !.result = "final_result",
                    !.status = "completed",
                    !.completed_at = "utcnow"]

\* Lines 114-138: the verdict is read, final_result is built and assigned.
Assemble(w) ==
    /\ pc[w] = "assemble"
    /\ Invoke(w, "assemble")
    /\ session' = [session EXCEPT ![w] = CompletedAssign(session[w])]
    /\ Goto(w, "commit_result")
    /\ UNCHANGED <<store, nextId, undispatched, queue, files, job_id, db, exc,
                   video_info, audio_path, wav_path, model, failed_stage,
                   soft_at>>
    /\ NoRequest

\* Lines 115-119: the verdict lacks a key the task reads.
AssembleFails(w) ==
    /\ pc[w] = "assemble"
    /\ StageRaises(w, "assemble")
    /\ UNCHANGED <<store, nextId, undispatched, queue, files, job_id, db,
                   session, video_info, audio_path, wav_path, model, soft_at>>
    /\ NoRequest

\* Line 139: commit of result, status and completed_at.
CommitResult(w) ==
    /\ pc[w] = "commit_result"
    /\ store' = Committed(w, session[w])
    /\ session' = [session EXCEPT ![w] = CleanSession]
    /\ Goto(w, "post_commit")
    /\ UNCHANGED <<nextId, undispatched, queue, files, job_id, db, exc,
                   video_info, audio_path, wav_path, model, stages,
                   failed_stage, soft_at>>
    /\ NoRequest

CommitResultFails(w) ==
    /\ pc[w] = "commit_result"
    /\ session' = [session EXCEPT ![w] = CleanSession]
    /\ RaiseInTry(w, StoreError)
    /\ UNCHANGED <<store, nextId, undispatched, queue, files, job_id, db,
                   video_info, audio_path, wav_path, model, stages,
                   failed_stage, soft_at>>
    /\ NoRequest

\* Lines 141-143: the print before the cleanup's own try block.
EnterCleanup(w) ==
    /\ pc[w] = "post_commit"
    /\ Goto(w, "remove_audio")
    /\ UNCHANGED <<store, nextId, undispatched, queue, files>>
    /\ UNCHANGED localVars
    /\ NoRequest

\* Lines 144-145: remove the audio file if it exists.
RemoveAudio(w) ==
    /\ pc[w] = "remove_audio"
    /\ files' = files \ {audio_path[w]}
    /\ Goto(w, "remove_wav")
    /\ UNCHANGED <<store, nextId, undispatched, queue>>
    /\ UNCHANGED localVars
    /\ NoRequest

\* Lines 146-147: remove the WAV file if it exists.
RemoveWav(w) ==
    /\ pc[w] = "remove_wav"
    /\ files' = files \ {wav_path[w]}
    /\ Goto(w, "finish")
    /\ UNCHANGED <<store, nextId, undispatched, queue>>
    /\ UNCHANGED localVars
    /\ NoRequest

\* Lines 149-150: os.remove raises; the cleanup's except swallows it and the
\* rest of the cleanup is skipped.
RemoveFails(w) ==
    /\ pc[w] \in {"remove_audio", "remove_wav"}
    /\ \/ pc[w] = "remove_audio" /\ audio_path[w] \in files
       \/ pc[w] = "remove_wav" /\ wav_path[w] \in files
    /\ Goto(w, "finish")
    /\ UNCHANGED <<store, nextId, undispatched, queue, files>>
    /\ UNCHANGED localVars
    /\ NoRequest

\* Lines 152-156: return final_result.
Return(w) ==
    /\ pc[w] = "finish"
    /\ Goto(w, "returned")
    /\ UNCHANGED <<store, nextId, undispatched, queue, files>>
    /\ UNCHANGED localVars
    /\ NoRequest

\* The handler's assignments without line 163.
FailedAssign_NoMessage(pending, e) ==
    [pending EXCEPT !.status = "failed",
                    !.completed_at = "utcnow"]

\* The handler's assignments with a fixed message instead of str(e).
FailedAssign_Generic(pending, e) ==
    [pending EXCEPT !.status = "failed",
                    !.error_message = "Unknown error",
                    !.completed_at = "utcnow"]

\* The assignments of lines 162-164.
FailedAssign(pending, e) ==
    [pending EXCEPT !.status = "failed",
                    !.error_message = e,
                    !.completed_at = "utcnow"]

\* A handler that hands the job id to the broker again after its commit.
Handler_Redispatches(w) ==
    /\ pc[w] = "handler"
    /\ store' = Committed(w, FailedAssign(session[w], exc[w]))
    /\ session' = [session EXCEPT ![w] = CleanSession]
    /\ queue' = queue \cup {job_id[w]}
    /\ Goto(w, "raised")
    /\ UNCHANGED <<nextId, undispatched, files, job_id, db, exc,
                   video_info, audio_path, wav_path, model, stages,
                   failed_stage, soft_at>>
    /\ NoRequest

\* Lines 158-168: the handler records the failure, commits and re-raises.
Handler(w) ==
    /\ pc[w] = "handler"
    /\ store' = Committed(w, FailedAssign(session[w], exc[w]))
    /\ session' = [session EXCEPT ![w] = CleanSession]
    /\ Goto(w, "raised")
    /\ UNCHANGED <<nextId, undispatched, queue, files, job_id, db, exc,
                   video_info, audio_path, wav_path, model, stages,
                   failed_stage, soft_at>>
    /\ NoRequest

\* Line 165 raises: nothing is written and the commit's error propagates.
HandlerCommitFails(w) ==
    /\ pc[w] = "handler"
    /\ session' = [session EXCEPT ![w] = CleanSession]
    /\ Goto(w, "raised")
    /\ exc' = [exc EXCEPT ![w] = StoreError]
    /\ UNCHANGED <<store, nextId, undispatched, queue, files, job_id, db,
                   video_info, audio_path, wav_path, model, stages,
                   failed_stage, soft_at>>
    /\ NoRequest

(***************************************************************************)
(* celery_app.py: task_soft_time_limit and task_time_limit                 *)
(***************************************************************************)
\* Positions of the try block outside the cleanup's own try block, from the
\* first stage call on.
TryPositions ==
    {"get_video_info", "assign_title", "commit_title", "download_audio",
     "convert_to_wav", "transcribe_load", "transcribe_run", "unload_model",
     "analyze_content", "assemble", "commit_result", "post_commit", "finish"}

CleanupPositions == {"remove_audio", "remove_wav"}

BodyPositions ==
    {"processing", "handler"} \cup TryPositions \cup CleanupPositions

\* SoftTimeLimitExceeded is raised in the try block: the handler catches it.
\* Assignments made before it stay pending in the session.
SoftLimitInTry(w) ==
    /\ pc[w] \in TryPositions
    /\ soft_at[w] = NULL
    /\ soft_at' = [soft_at EXCEPT ![w] = pc[w]]
    /\ RaiseInTry(w, SoftTimeLimitExceeded)
    /\ UNCHANGED <<store, nextId, undispatched, queue, files, job_id, db,
                   session, video_info, audio_path, wav_path, model, stages,
                   failed_stage>>
    /\ NoRequest

\* SoftTimeLimitExceeded is raised inside the cleanup: "except Exception"
\* of lines 149-150 swallows it and the rest of the cleanup is skipped.
SoftLimitInCleanup(w) ==
    /\ pc[w] \in CleanupPositions
    /\ soft_at[w] = NULL
    /\ soft_at' = [soft_at EXCEPT ![w] = pc[w]]
    /\ Goto(w, "finish")
    /\ UNCHANGED <<store, nextId, undispatched, queue, files, job_id, db,
                   session, exc, video_info, audio_path, wav_path, model,
                   stages, failed_stage>>
    /\ NoRequest

\* SoftTimeLimitExceeded is raised inside the handler, before its commit:
\* it propagates and nothing is written.
SoftLimitInHandler(w) ==
    /\ pc[w] = "handler"
    /\ soft_at[w] = NULL
    /\ soft_at' = [soft_at EXCEPT ![w] = pc[w]]
    /\ Goto(w, "raised")
    /\ exc' = [exc EXCEPT ![w] = SoftTimeLimitExceeded]
    /\ UNCHANGED <<store, nextId, undispatched, queue, files, job_id, db,
                   session, video_info, audio_path, wav_path, model, stages,
                   failed_stage>>
    /\ NoRequest

\* The hard time limit kills the worker process: nothing more is written.
HardKill(w) ==
    /\ pc[w] \in BodyPositions
    /\ Goto(w, "killed")
    /\ UNCHANGED <<store, nextId, undispatched, queue, files>>
    /\ UNCHANGED localVars
    /\ NoRequest

\* The locals of a worker that runs no task.
Reset(w) ==
    /\ Goto(w, "idle")
    /\ job_id' = [job_id EXCEPT ![w] = StrayId]
    /\ session' = [session EXCEPT ![w] = CleanSession]
    /\ exc' = [exc EXCEPT ![w] = NULL]
    /\ video_info' = [video_info EXCEPT ![w] = UNSET]
    /\ audio_path' = [audio_path EXCEPT ![w] = <<>>]
    /\ wav_path' = [wav_path EXCEPT ![w] = <<>>]
    /\ model' = [model EXCEPT ![w] = NULL]
    /\ stages' = [stages EXCEPT ![w] = <<>>]
    /\ failed_stage' = [failed_stage EXCEPT ![w] = NULL]
    /\ soft_at' = [soft_at EXCEPT ![w] = NULL]

\* The pool replaces the killed process.
Respawn(w) ==
    /\ pc[w] = "killed"
    /\ Reset(w)
    /\ db' = [db EXCEPT ![w] = NoSession]
    /\ UNCHANGED <<store, nextId, undispatched, queue, files>>
    /\ NoRequest

\* after_return without lines 30-32: the session stays in _db.
AfterReturn_KeepsSession(w) ==
    /\ pc[w] \in {"returned", "raised"}
    /\ Reset(w)
    /\ UNCHANGED db
    /\ UNCHANGED <<store, nextId, undispatched, queue, files>>
    /\ NoRequest

\* tasks.py lines 29-32: DatabaseTask.after_return closes the session (its
\* pending assignments are rolled back) and forgets it; the frame of the
\* task body is gone.
AfterReturn(w) ==
    /\ pc[w] \in {"returned", "raised"}
    /\ Reset(w)
    /\ db' = [db EXCEPT ![w] = after_return(db[w])]
    /\ UNCHANGED <<store, nextId, undispatched, queue, files>>
    /\ NoRequest

(***************************************************************************)
(* Specifications                                                          *)
(***************************************************************************)
\* The steps of submit_analysis and of the dispatch layer.
Api ==
    \/ \E url \in Urls : SubmitCommit(url)
    \/ \E id \in JobIds : SubmitDispatch(id)
    \/ DispatchStray

\* The steps of one execution that do not depend on a failing store.
Task(w) ==
    \/ \E id \in JobIds : PickupFound(w, id)
    \/ PickupNotFound(w, StrayId)
    \/ CommitProcessing(w)
    \/ GetVideoInfo(w)
    \/ GetVideoInfoFails(w)
    \/ AssignTitle(w)
    \/ CommitTitle(w)
    \/ DownloadAudio(w)
    \/ DownloadAudioFails(w)
    \/ ConvertToWav(w)
    \/ ConvertToWavFails(w)
    \/ TranscribeLoad(w)
    \/ TranscribeLoadFails(w)
    \/ TranscribeRun(w)
    \/ TranscribeRunFails(w)
    \/ UnloadModel(w)
    \/ UnloadModelFails(w)
    \/ AnalyzeContent(w)
    \/ AnalyzeContentFails(w)
    \/ Assemble(w)
    \/ AssembleFails(w)
    \/ CommitResult(w)
    \/ EnterCleanup(w)
    \/ RemoveAudio(w)
    \/ RemoveWav(w)
    \/ RemoveFails(w)
    \/ Return(w)
    \/ Handler(w)
    \/ SoftLimitInTry(w)
    \/ SoftLimitInCleanup(w)
    \/ SoftLimitInHandler(w)
    \/ HardKill(w)
    \/ Respawn(w)
    \/ AfterReturn(w)

\* The commits that raise.
StoreFault(w) ==
    \/ CommitProcessingFails(w)
    \/ CommitTitleFails(w)
    \/ CommitResultFails(w)
    \/ HandlerCommitFails(w)

\* One worker, every dispatched id executed once, the store may fail.
Next ==
    \/ Api
    \/ \E w \in SoloWorkers : Task(w)
    \/ \E w \in SoloWorkers : StoreFault(w)

Spec == Init /\ [][Next]_vars

\* One worker, every dispatched id executed once, every commit succeeds.
NextReliable ==
    \/ Api
    \/ \E w \in SoloWorkers : Task(w)

SpecReliable == Init /\ [][NextReliable]_vars

\* The broker delivers the message of an already dispatched id once more
\* (a second delay() for the id, or a redelivery of an unacknowledged
\* message): nothing in the task prevents a second execution.
Redeliver(id) ==
    /\ id \in DOMAIN store
    /\ id \notin undispatched
    /\ id \notin queue
    /\ queue' = queue \cup {id}
    /\ UNCHANGED <<store, nextId, undispatched, files, pc>>
    /\ UNCHANGED localVars
    /\ NoRequest

\* The steps of one execution without the time limits: every stage returns
\* or raises, every commit succeeds.
Pipeline(w) ==
    \/ \E id \in JobIds : PickupFound(w, id)
    \/ CommitProcessing(w)
    \/ GetVideoInfo(w)
    \/ GetVideoInfoFails(w)
    \/ AssignTitle(w)
    \/ CommitTitle(w)
    \/ DownloadAudio(w)
    \/ DownloadAudioFails(w)
    \/ ConvertToWav(w)
    \/ ConvertToWavFails(w)
    \/ TranscribeLoad(w)
    \/ TranscribeLoadFails(w)
    \/ TranscribeRun(w)
    \/ TranscribeRunFails(w)
    \/ UnloadModel(w)
    \/ UnloadModelFails(w)
    \/ AnalyzeContent(w)
    \/ AnalyzeContentFails(w)
    \/ Assemble(w)
    \/ AssembleFails(w)
    \/ CommitResult(w)
    \/ EnterCleanup(w)
    \/ RemoveAudio(w)
    \/ RemoveWav(w)
    \/ RemoveFails(w)
    \/ Return(w)
    \/ Handler(w)
    \/ AfterReturn(w)

\* The steps of one execution in which only the stages that read a file
\* (convert_to_wav and the transcription) may raise.
PipelineCore(w) ==
    \/ \E id \in JobIds : PickupFound(w, id)
    \/ CommitProcessing(w)
    \/ GetVideoInfo(w)
    \/ AssignTitle(w)
    \/ CommitTitle(w)
    \/ DownloadAudio(w)
    \/ ConvertToWav(w)
    \/ ConvertToWavFails(w)
    \/ TranscribeLoad(w)
    \/ TranscribeRun(w)
    \/ TranscribeRunFails(w)
    \/ UnloadModel(w)
    \/ AnalyzeContent(w)
    \/ Assemble(w)
    \/ CommitResult(w)
    \/ EnterCleanup(w)
    \/ RemoveAudio(w)
    \/ RemoveWav(w)
    \/ Return(w)
    \/ Handler(w)
    \/ AfterReturn(w)


\* One worker, an id may be executed again after its execution.
NextRedelivery ==
    \/ \E url \in Urls : SubmitCommit(url)
    \/ \E id \in JobIds : SubmitDispatch(id)
    \/ \E id \in JobIds : Redeliver(id)
    \/ \E w \in SoloWorkers : Pipeline(w)

SpecRedelivery == Init /\ [][NextRedelivery]_vars

\* Two workers, an id may be executed by both at the same time.
NextConcurrent ==
    \/ \E url \in Urls : SubmitCommit(url)
    \/ \E id \in JobIds : SubmitDispatch(id)
    \/ \E id \in JobIds : Redeliver(id)
    \/ \E w \in Workers : PipelineCore(w)

SpecConcurrent == Init /\ [][NextConcurrent]_vars

(***************************************************************************)
(* tasks.py: DatabaseTask, executions whose body never reaches self.db      *)
(***************************************************************************)
\* A message for analyze_video that carries no job id.
NoArguments == -2

\* Such a message is sent to the queue by name.
DispatchUnbound ==
    /\ NoArguments \notin queue
    /\ queue' = queue \cup {NoArguments}
    /\ UNCHANGED <<store, nextId, undispatched, files, pc>>
    /\ UNCHANGED localVars
    /\ NoRequest

\* Line 36: the call of the task with no job_id raises TypeError before the
\* body runs; self.db was never read.
PickupUnbound(w) ==
    /\ pc[w] = "idle"
    /\ NoArguments \in queue
    /\ queue' = queue \ {NoArguments}
    /\ Goto(w, "raised")
    /\ exc' = [exc EXCEPT ![w] = "TypeError"]
    /\ UNCHANGED <<store, nextId, undispatched, files, job_id, db, session,
                   video_info, audio_path, wav_path, model, stages,
                   failed_stage, soft_at>>
    /\ NoRequest

\* One worker, every commit succeeds, messages without a job id may arrive.
NextSession ==
    \/ NextReliable
    \/ DispatchUnbound
    \/ \E w \in SoloWorkers : PickupUnbound(w)

SpecSession == Init /\ [][NextSession]_vars

(***************************************************************************)
(* endpoints.py: get_analysis_result and list_jobs                          *)
(***************************************************************************)
\* The ids a client may ask for.
RequestIds == JobIds \cup {StrayId}

\* The values of the limit parameter (a negative limit is left to the
\* database and is not modelled).
Limits == 0..MaxLimit

\* The URLs submitted while the reads are exercised.
ApiUrls == {"u1"}

\* The values of the status parameter: absent, empty, a status, another word.
Filters == {NULL, "", "pending", "processing", "completed", "failed",
            "cancelled"}

\* Lines 196-204: the StatusResponse of a row.
StatusResponse(i) ==
    [job_id |-> i,
     youtube_url |-> store[i].youtube_url,
     video_title |-> store[i].video_title,
     status |-> store[i].status,
     created_at |-> created_at[i],
     completed_at |-> store[i].completed_at,
     error_message |-> store[i].error_message]

\* Lines 162-171: the ResultResponse of a row.
ResultResponse(i) ==
    [job_id |-> i,
     youtube_url |-> store[i].youtube_url,
     video_title |-> store[i].video_title,
     status |-> store[i].status,
     result |-> store[i].result,
     error_message |-> store[i].error_message,
     created_at |-> created_at[i],
     completed_at |-> store[i].completed_at]

\* get_analysis_result that answers with the row in every status.
get_analysis_result_Eager(id) ==
    IF id \notin DOMAIN store
    THEN [request |-> "get_analysis_result", job_id |-> id, code |-> 404]
    ELSE [request |-> "get_analysis_result", job_id |-> id, code |-> 200,
          body |-> ResultResponse(id)]

\* Lines 151-171: 404 for no row, 202 naming the status for a pending or
\* processing row, the ResultResponse otherwise.
get_analysis_result(id) ==
    IF id \notin DOMAIN store
    THEN [request |-> "get_analysis_result", job_id |-> id, code |-> 404]
    ELSE IF store[id].status = "pending" \/ store[id].status = "processing"
    THEN [request |-> "get_analysis_result", job_id |-> id, code |-> 202,
          detail |-> store[id].status]
    ELSE [request |-> "get_analysis_result", job_id |-> id, code |-> 200,
          body |-> ResultResponse(id)]

GetAnalysisResult(id) ==
    /\ response' = get_analysis_result(id)
    /\ UNCHANGED <<store, nextId, undispatched, queue, files, pc, created_at,
                   transcriber>>
    /\ UNCHANGED localVars

\* Lines 190-191: `if status:` applies the filter for a non-empty status.
Filtered(status) ==
    {i \in DOMAIN store :
        status \in {NULL, ""} \/ store[i].status = status}

\* Line 188: the orders of the rows S by created_at descending; rows of the
\* same creation time come in any order.
OrderedDesc(S) ==
    {q \in [1..Cardinality(S) -> S] :
        /\ \A k, l \in 1..Cardinality(S) : q[k] = q[l] => k = l
        /\ \A k, l \in 1..Cardinality(S) :
              k < l => created_at[q[k]] >= created_at[q[l]]}

Min(a, b) == IF a <= b THEN a ELSE b

\* list_jobs without the order_by of line 188: the rows come in any order.
list_jobs_Unordered(limit, status) ==
    {[request |-> "list_jobs", limit |-> limit, status |-> status,
      code |-> 200,
      body |-> [k \in 1..Min(limit, Cardinality(Filtered(status))) |->
                   StatusResponse(q[k])]] :
        q \in {r \in [1..Cardinality(Filtered(status)) -> Filtered(status)] :
                 \A k, l \in DOMAIN r : r[k] = r[l] => k = l}}

\* Lines 188-206: the responses list_jobs may give.
list_jobs(limit, status) ==
    {[request |-> "list_jobs", limit |-> limit, status |-> status,
      code |-> 200,
      body |-> [k \in 1..Min(limit, Cardinality(Filtered(status))) |->
                   StatusResponse(q[k])]] :
        q \in OrderedDesc(Filtered(status))}

ListJobs(limit, status) ==
    /\ response' \in list_jobs(limit, status)
    /\ UNCHANGED <<store, nextId, undispatched, queue, files, pc, created_at,
                   transcriber>>
    /\ UNCHANGED localVars

\* The API with its reads, and one worker.
NextApi ==
    \/ \E url \in ApiUrls : SubmitCommit(url)
    \/ \E url \in ApiUrls : SubmitCommitSameTick(url)
    \/ \E id \in JobIds : SubmitDispatch(id)
    \/ \E id \in RequestIds : GetAnalysisResult(id)
    \/ \E limit \in Limits : \E status \in Filters : ListJobs(limit, status)
    \/ \E w \in SoloWorkers : PipelineCore(w)

SpecApi == Init /\ [][NextApi]_vars

(***************************************************************************)
(* transcriber.py: a WhisperTranscriber called directly, in any order       *)
(***************************************************************************)
\* The number of models loaded (line 32) since the last unload_model, after
\* a call that leaves the model m: a model other than the one held before
\* was loaded by the call.
Loads(name, m) ==
    IF name = "unload_model" THEN 0
    ELSE IF m # transcriber.model THEN transcriber.loads + 1
    ELSE transcriber.loads

\* The call returns: the model held afterwards is m; u is the model that
\* line 64 used, UNSET for a call that does not reach line 64.
Called(name, m, u) ==
    /\ Len(transcriber.calls) < MaxCalls
    /\ transcriber' = [model |-> m,
                       calls |-> Append(transcriber.calls, name),
                       raised |-> FALSE,
                       loads |-> Loads(name, m),
                       used |-> u]
    /\ response' = NoResponse
    /\ UNCHANGED <<store, nextId, undispatched, queue, files, pc, created_at>>
    /\ UNCHANGED localVars

\* The call raises: the model held afterwards is m, line 64 used u.
CallRaised(name, m, u) ==
    /\ Len(transcriber.calls) < MaxCalls
    /\ transcriber' = [model |-> m,
                       calls |-> Append(transcriber.calls, name),
                       raised |-> TRUE,
                       loads |-> Loads(name, m),
                       used |-> u]
    /\ response' = NoResponse
    /\ UNCHANGED <<store, nextId, undispatched, queue, files, pc, created_at>>
    /\ UNCHANGED localVars

\* Lines 28-33: load_model().
CallLoadModel == Called("load_model", load_model(transcriber.model), UNSET)

\* Line 32: whisper.load_model raises; nothing was assigned.
CallLoadModelRaises ==
    /\ transcriber.model = NULL
    /\ CallRaised("load_model", transcriber.model, UNSET)

\* Lines 50-64: transcribe() calls load_model and then uses self.model.
CallTranscribe ==
    /\ load_model(transcriber.model) # NULL
    /\ Called("transcribe", load_model(transcriber.model),
              load_model(transcriber.model))

\* Line 51 raises in whisper.load_model: nothing was assigned, line 64 is not
\* reached.
CallTranscribeLoadRaises ==
    /\ transcriber.model = NULL
    /\ CallRaised("transcribe", transcriber.model, UNSET)

\* Line 64 raises: in the transcription, or because self.model is None.
CallTranscribeRaises ==
    CallRaised("transcribe", load_model(transcriber.model),
               load_model(transcriber.model))

\* Lines 111-118: unload_model().
CallUnloadModel ==
    Called("unload_model", unload_model(transcriber.model), UNSET)

\* Line 117: torch.cuda.empty_cache() raises, inside the branch taken only
\* when a model was held, after the model was dropped.
CallUnloadModelRaises ==
    /\ transcriber.model # NULL
    /\ CallRaised("unload_model", unload_model(transcriber.model), UNSET)

NextTranscriber ==
    \/ CallLoadModel
    \/ CallLoadModelRaises
    \/ CallTranscribe
    \/ CallTranscribeLoadRaises
    \/ CallTranscribeRaises
    \/ CallUnloadModel
    \/ CallUnloadModelRaises

SpecTranscriber == Init /\ [][NextTranscriber]_vars

(***************************************************************************)
(* Properties                                                              *)
(***************************************************************************)
Running == {w \in Workers : job_id[w] \in DOMAIN store}

Row(w) == store[job_id[w]]

Exited(w) == pc[w] \in {"returned", "raised"}

IsPrefix(s, t) == Len(s) <= Len(t) /\ \A k \in 1..Len(s) : s[k] = t[k]

LegalTransitions ==
    {<<"pending", "processing">>,
     <<"processing", "completed">>,
     <<"processing", "failed">>}

\* C1: the committed status of every job only changes along
\* pending -> processing -> completed or pending -> processing -> failed,
\* and never changes once it is completed or failed, also when the try
\* block raises after the commit of completed.
C1_StatusMonotonic ==
    [][\A i \in DOMAIN store :
          store'[i].status # store[i].status
             => <<store[i].status, store'[i].status>> \in LegalTransitions]_vars

\* C2: in every committed row, result is non-null exactly when status is
\* completed.
C2_ResultIffCompleted ==
    \A i \in DOMAIN store :
        (store[i].result # NULL) <=> (store[i].status = "completed")

\* C3: in every committed row, error_message is non-null exactly when status
\* is failed.
C3_ErrorIffFailed ==
    \A i \in DOMAIN store :
        (store[i].error_message # NULL) <=> (store[i].status = "failed")

\* A job has failed and carries the handler's message.
C3_Witness ==
    \E i \in DOMAIN store :
        /\ store[i].status = "failed"
        /\ store[i].error_message = StageError

\* C4: once the task has returned or raised, neither the audio file nor the
\* WAV file it created exists.
C4_NoArtifactsAfterExit ==
    \A w \in Workers :
        Exited(w) => audio_path[w] \notin files /\ wav_path[w] \notin files

\* C5: when a stage call raised and the task has exited, the row is failed
\* with the failure's description and completed_at, the exception that
\* leaves the task is the stage's, and no stage was invoked after the
\* failing one.
C5_StageFailureRecorded ==
    \A w \in Running :
        (pc[w] = "raised" /\ failed_stage[w] # NULL) =>
            /\ Row(w).status = "failed"
            /\ Row(w).error_message = StageError
            /\ Row(w).completed_at # NULL
            /\ exc[w] = StageError
            /\ stages[w][Len(stages[w])] = failed_stage[w]

\* C5 (amended): when a stage call raised and the task has exited, no stage
\* was invoked after the failing one; if the exception that leaves the task
\* is the stage's, the handler's commit was made before: the row is failed
\* with the failure's description and completed_at.  Otherwise the handler
\* was interrupted or its commit raised: that exception leaves the task and
\* the row is still processing, without an error message.
C5_StageFailureRecordedIfHandlerCommits ==
    \A w \in Running :
        (pc[w] = "raised" /\ failed_stage[w] # NULL) =>
            /\ stages[w][Len(stages[w])] = failed_stage[w]
            /\ exc[w] = StageError =>
                  /\ Row(w).status = "failed"
                  /\ Row(w).error_message = StageError
                  /\ Row(w).completed_at # NULL
            /\ exc[w] # StageError =>
                  /\ exc[w] \in {StoreError, SoftTimeLimitExceeded}
                  /\ Row(w).status = "processing"
                  /\ Row(w).error_message = NULL
                  /\ Row(w).completed_at = NULL

\* The transcription raised, the handler committed and re-raised.
C5_Witness ==
    \E w \in Running :
        /\ pc[w] = "raised"
        /\ failed_stage[w] = "transcribe"
        /\ exc[w] = StageError
        /\ Row(w).status = "failed"
        /\ Row(w).error_message = StageError

\* C6: a pickup of an id that has no row raises the not-found error, leaves
\* the store and the files unchanged and invokes no stage.
C6_NotFoundWritesNothing ==
    [][\A w \in Workers :
          (pc[w] = "idle" /\ pc'[w] # "idle" /\ job_id'[w] \notin DOMAIN store)
             => /\ pc'[w] = "raised"
                /\ exc'[w] = NotFound
                /\ store' = store
                /\ files' = files
                /\ stages'[w] = <<>>
                /\ session'[w] = CleanSession]_vars

\* The task was invoked with an unknown id and has raised.
C6_Witness ==
    \E w \in Workers :
        /\ pc[w] = "raised"
        /\ exc[w] = NotFound
        /\ job_id[w] \notin DOMAIN store

\* Positions between the commit of processing and the terminal commit.
PreTerminalPositions ==
    {"get_video_info", "assign_title", "commit_title", "download_audio",
     "convert_to_wav", "transcribe_load", "transcribe_run", "unload_model",
     "analyze_content", "assemble", "commit_result"}

\* C7: processing is committed before the first stage is invoked: once a
\* stage was invoked the row is not pending, also after the process was
\* killed, and until the terminal commit the row is processing.
C7_ProcessingBeforeStages ==
    \A w \in Running :
        /\ stages[w] # <<>> => Row(w).status # "pending"
        /\ pc[w] \in PreTerminalPositions => Row(w).status = "processing"

\* The process was killed during the stages: the row shows processing.
C7_Witness ==
    \E w \in Running :
        /\ pc[w] = "killed"
        /\ stages[w] # <<>>
        /\ Row(w).status = "processing"

\* Positions after the commit of the title.
AfterTitlePositions ==
    TryPositions \ {"get_video_info", "assign_title", "commit_title"}

\* A stage after the metadata fetch raised, or the soft time limit was
\* raised after the title commit.
LaterFailure(w) ==
    \/ failed_stage[w] \notin {NULL, "metadata"}
    \/ soft_at[w] \in AfterTitlePositions

\* C8: the fetched title is committed before the audio fetch starts, and
\* the failed row written after a later failure still carries it.
C8_TitleRetained ==
    \A w \in Running :
        /\ (pc[w] \in AfterTitlePositions \/ Len(stages[w]) >= 2)
              => Row(w).video_title = video_info[w]
        /\ (pc[w] = "raised" /\ LaterFailure(w) /\ Row(w).status = "failed")
              => Row(w).video_title = video_info[w]

\* The audio fetch raised and the failed row carries the fetched title.
C8_Witness ==
    \E w \in Running :
        /\ pc[w] = "raised"
        /\ failed_stage[w] = "audio"
        /\ Row(w).status = "failed"
        /\ Row(w).video_title = "Title A"

\* C9: the stages are invoked in the order metadata, audio, wav, transcribe,
\* unload, analyze, assemble, none after one that raised, and the analysis
\* never starts while the transcriber holds its model.
C9_StageOrder ==
    \A w \in Workers :
        /\ IsPrefix(stages[w], StageOrder)
        /\ failed_stage[w] # NULL
              => stages[w][Len(stages[w])] = failed_stage[w]
        /\ (pc[w] = "analyze_content" \/ Len(stages[w]) >= 6)
              => model[w] = NULL

\* The analysis is about to start: five stages returned, no model is held.
C9_Witness ==
    \E w \in Workers :
        /\ pc[w] = "analyze_content"
        /\ stages[w] = <<"metadata", "audio", "wav", "transcribe", "unload">>
        /\ model[w] = NULL

\* C10: when the soft time limit is raised during the transcription and the
\* task has exited, the row is failed with the timeout's message and the
\* transcriber holds no model.
C10_TimeoutReleasesModel ==
    \A w \in Running :
        (pc[w] = "raised" /\ soft_at[w] \in {"transcribe_load", "transcribe_run"})
            => /\ Row(w).status = "failed"
               /\ Row(w).error_message = SoftTimeLimitExceeded
               /\ model[w] = NULL

\* Worker w has committed processing for its job and not yet a terminal
\* status.
HoldsProcessing(w) == w \in Running /\ pc[w] \in PreTerminalPositions

\* C11: of the executions started for one job id, at most one at a time has
\* committed processing and runs the stages.
C11_SingleOwner ==
    \A w \in Workers : \A v \in Workers \ {w} :
        job_id[w] = job_id[v] => ~(HoldsProcessing(w) /\ HoldsProcessing(v))

\* The artifact paths worker w has created so far.
Artifacts(w) == {audio_path[w], wav_path[w]} \ {<<>>}

\* C12: two executions of distinct jobs that run at the same time never use
\* the same artifact path.
C12_ArtifactsDisjoint ==
    \A w \in Running : \A v \in Running \ {w} :
        (job_id[w] # job_id[v] /\ pc[w] \in BodyPositions
                               /\ pc[v] \in BodyPositions)
            => Artifacts(w) \cap Artifacts(v) = {}

\* C19: an execution picked up for a job whose row is already completed or
\* failed leaves the row unchanged.
C19_TerminalAbsorbing ==
    [][\A w \in Running :
          (pc[w] = "processing" /\ Row(w).status \in {"completed", "failed"})
             => store'[job_id[w]] = store[job_id[w]]]_vars

\* C13: a commit that raised is never recorded on the job like a stage
\* failure: no row is failed with the store error as its message.
C13_StoreFaultNotRecorded ==
    \A i \in DOMAIN store :
        ~(store[i].status = "failed" /\ store[i].error_message = StoreError)

\* C14: in every committed row, completed_at is non-null exactly when status
\* is completed or failed.
C14_CompletedAtIffTerminal ==
    \A i \in DOMAIN store :
        (store[i].completed_at # NULL)
            <=> (store[i].status \in {"completed", "failed"})

\* A job has completed and carries its completion time.
C14_Witness ==
    \E i \in DOMAIN store :
        /\ store[i].status = "completed"
        /\ store[i].completed_at = "utcnow"

\* C15: within one execution no stage is invoked twice, and while or after
\* the task runs its job id is not handed to the broker again.
C15_NoRetry ==
    \A w \in Running :
        /\ \A k \in 1..Len(stages[w]) : \A l \in 1..Len(stages[w]) :
              stages[w][k] = stages[w][l] => k = l
        /\ pc[w] # "idle" => job_id[w] \notin queue \cup undispatched

\* An execution has failed at the transcription and its id is not queued.
C15_Witness ==
    \E w \in Running :
        /\ pc[w] = "raised"
        /\ failed_stage[w] = "transcribe"
        /\ stages[w] = <<"metadata", "audio", "wav", "transcribe">>
        /\ job_id[w] \notin queue

\* C16: a call of unload_model leaves no model held; on a transcriber that
\* holds none it changes nothing and does not raise, so any number of calls
\* after the first leave the state of the first.
C16_UnloadIdempotent ==
    [][(/\ Len(transcriber'.calls) = Len(transcriber.calls) + 1
        /\ transcriber'.calls[Len(transcriber'.calls)] = "unload_model")
       => /\ transcriber'.model = NULL
          /\ transcriber.model = NULL
                => /\ transcriber'.model = transcriber.model
                   /\ ~transcriber'.raised]_vars

\* unload_model on a fresh transcriber, then a load and two unloads.
C16_Witness ==
    /\ transcriber.calls =
           <<"unload_model", "load_model", "unload_model", "unload_model">>
    /\ transcriber.model = NULL
    /\ ~transcriber.raised

C18_ListJobsNewestFirst ==
    (response.code # 0 /\ response.request = "list_jobs") =>
        LET body == response.body
            returned == {body[k].job_id : k \in DOMAIN body}
            matching == {i \in DOMAIN store :
                            response.status \notin {NULL, ""}
                                => store[i].status = response.status}
        IN  /\ Len(body) <= response.limit
            /\ \A k, l \in DOMAIN body : body[k].job_id = body[l].job_id => k = l
            /\ returned \subseteq matching
            /\ \A k \in DOMAIN body : body[k] = StatusResponse(body[k].job_id)
            /\ \A k, l \in DOMAIN body :
                  k < l => body[k].created_at >= body[l].created_at
            /\ \A i \in matching \ returned : \A j \in returned :
                  created_at[i] <= created_at[j]
            /\ matching \ returned # {} => Len(body) = response.limit

\* A filtered list cut short by the limit: the newer failed job is returned,
\* the older one omitted.
C18_Witness ==
    /\ response.code = 200
    /\ response.request = "list_jobs"
    /\ response.status = "failed"
    /\ response.limit = 1
    /\ Len(response.body) = 1
    /\ \E i \in DOMAIN store :
          /\ store[i].status = "failed"
          /\ i # response.body[1].job_id
          /\ created_at[i] < response.body[1].created_at

\* C20: an execution that has ended, by returning, by raising or by the
\* hard time limit, has not left its row in the status processing.
C20_ProcessingEnds ==
    \A w \in Running :
        pc[w] \in {"returned", "raised", "killed"}
            => Row(w).status # "processing"

\* C21: a step of the cleanup that is not cut short by a time limit, whether
\* the removal succeeds or raises, writes nothing to the store and leaves the
\* row completed with its result; after the removal of the audio file, raised
\* or not, the removal of the WAV file comes next; and the task then returns.
C21_CleanupBestEffort ==
    [][\A w \in Running :
          /\ (/\ pc[w] \in CleanupPositions
              /\ pc'[w] # pc[w]
              /\ pc'[w] \in {"remove_wav", "finish"}
              /\ soft_at'[w] = soft_at[w])
                => /\ store' = store
                   /\ Row(w).status = "completed"
                   /\ Row(w).result # NULL
                   /\ pc[w] = "remove_audio" => pc'[w] = "remove_wav"
          /\ (/\ pc[w] = "finish"
              /\ pc'[w] # pc[w]
              /\ soft_at'[w] = soft_at[w]
              /\ pc'[w] # "killed")
                => pc'[w] = "returned" /\ store' = store]_vars

\* C22: between executions the task holds no session, whether the execution
\* returned, raised in a stage, found no row or never opened a session; while
\* the body of an execution runs the session in use is the one that this
\* execution created.
C22_SessionPerExecution ==
    \A w \in Workers :
        /\ pc[w] = "idle" => db[w] = NoSession
        /\ pc[w] \in BodyPositions => db[w] = job_id[w]
        /\ (pc[w] # "idle" /\ db[w] # NoSession) => db[w] = job_id[w]

\* The second execution of a worker runs with its own session after the
\* first one failed.
C22_Witness ==
    \E w \in SoloWorkers :
        /\ pc[w] = "transcribe_run"
        /\ job_id[w] = 2
        /\ db[w] = 2
        /\ 1 \in DOMAIN store
        /\ store[1].status = "failed"

\* C23: every id that submit_analysis holds after its commit, has dispatched
\* or has returned to its caller has a row, a pending one until a worker
\* picks the id up; a worker that executes such an id has found the row.
C23_CommitBeforeDispatch ==
    /\ \A id \in undispatched \cup (queue \cap JobIds) :
          id \in DOMAIN store /\ store[id].status = "pending"
    /\ \A id \in 1..(nextId - 1) : id \in DOMAIN store
    /\ \A w \in Workers :
          job_id[w] \in JobIds
              => job_id[w] \in DOMAIN store /\ exc[w] # NotFound

\* A worker has picked up a dispatched id and holds its pending row while
\* another submission is between its commit and its dispatch.
C23_Witness ==
    \E w \in SoloWorkers :
        /\ pc[w] = "processing"
        /\ job_id[w] \in DOMAIN store
        /\ Row(w).status = "pending"
        /\ undispatched # {}

\* C24: on one transcriber, whatever the calls, at most one model has been
\* loaded since the last unload_model, and whenever transcribe reaches the
\* use of self.model a model is held, also after an unload_model.
C24_LoadOncePerUnload ==
    /\ transcriber.loads <= 1
    /\ transcriber.model # NULL => transcriber.loads = 1
    /\ transcriber.used # UNSET => transcriber.used # NULL

\* transcribe after a load and an unload: it loaded the model again, once,
\* and used it.
C24_Witness ==
    /\ transcriber.calls =
           <<"load_model", "transcribe", "unload_model", "transcribe">>
    /\ transcriber.used = "loaded"
    /\ transcriber.loads = 1
    /\ ~transcriber.raised

====
